---- MODULE Spec2Model ----
(***************************************************************************)
(* Model of src/cli/eeprom_programmer.py: the host side of the AT28C       *)
(* EEPROM programmer protocol (ArduinoClient: handshake, erase, read,      *)
(* write_hex) talking to a device over a serial transport.                 *)
(*                                                                         *)
(* Text is modelled as sequences of one-character strings, so that         *)
(* strip / startswith / endswith / split / int(.,16) / hex formatting are  *)
(* computed the way the Python code computes them.                         *)
(* Time is counted in ticks of 0.1 s (the poll sleep of the code).         *)
(***************************************************************************)
EXTENDS Integers, Sequences, FiniteSets, TLC

VARIABLES
    op,             \* the operation under way: "erase" | "read" | "write"
    start_addr,     \* argument of erase / read
    end_addr,       \* argument of erase
    pattern,        \* argument of erase
    hex_data,       \* argument of write_hex (text)
    pc,             \* position of the host in the operation
    err,            \* the exception raised ("" while none)
    now,            \* time.time(), in ticks
    cmd_timeout,    \* local `timeout` of _send_command
    erase_timeout,  \* local `timeout` of erase
    inbuf,          \* the serial input buffer: lines received and not yet read
    calls,          \* the calls made on self.ser that change the transport
    response,       \* the line _send_command returned (<<>> while none)
    dump_data,      \* read: the result list
    current_addr,   \* read: <<>> is None, <<a>> is address a
    current_bytes,  \* read: bytes of the segment in progress
    lineIx,         \* write_hex: index of the hex line to send next
    budget,         \* device: number of scripted lines it may still send
    hsRead,         \* history: stripped lines read by the handshake loop
    respFrom,       \* history: the buffer entry returned as the response
    flushed,        \* history: number of pending lines the command flush discarded
    cmdsSent,       \* history: the device has sent a line ending in Commands:
    rowsSeen,       \* history: data rows read by the dump loop, in order
    pressSeen,      \* history: lines starting with Press read by the dump loop
    keptSeg,        \* history: the dump loop read a line that is no data row and
                    \* does not end in > while a segment was in progress
    stopAt,         \* history: the values of lineIx at which the drain of
                    \* write_hex read a line starting with Commands
    fn,             \* codec: the function called ("none" while none)
    address,        \* codec: argument `address` of bytes_to_hex_record
    record_type,    \* codec: argument `record_type` of bytes_to_hex_record
    line_arg,       \* codec: argument `line` of calculate_checksum / bytes_to_hex_record
    data_arg,       \* codec: `data`, the list of (addr, bytes) pairs to save
    ret,            \* codec: what the call gave: [kind, out]
    stage,          \* command line: position in __main__ ("none": not run as a script)
    args,           \* command line: the parsed arguments
    programmer,     \* command line: FALSE is None, TRUE is an ArduinoClient
    exit_code,      \* command line: -1 while running, then the exit status
    ran,            \* command line: the operations called, with how each ended
    saved           \* command line: what was written to the output file

codecVars == <<fn, address, record_type, line_arg, data_arg, ret>>

cliVars == <<stage, args, programmer, exit_code, ran, saved>>

vars == <<op, start_addr, end_addr, pattern, hex_data, pc, err, now, cmd_timeout,
          erase_timeout, inbuf, calls, response, dump_data, current_addr,
          current_bytes, lineIx, budget, hsRead, respFrom, flushed, cmdsSent,
          rowsSeen, pressSeen, keptSeg, stopAt, codecVars, cliVars>>

-----------------------------------------------------------------------------
(* Bounds of the model. *)

\* Scripted (arbitrary) lines the device sends in one run.
MaxLines == 3
\* Scripted lines of the device in the runs checked for termination.
MaxFairLines == 1
\* The 5 s handshake deadline (line 166), scaled to poll ticks.
CmdTimeout == 2
\* The 30 s erase deadline (line 212), scaled to poll ticks.
EraseTimeout == 3
\* Length of the lists of bytes enumerated in full as codec arguments.
MaxBytes == 2
\* Scripted lines the device sends during each operation of a command-line run.
MaxCliLines == 1

\* time.sleep(0.1): one tick.
Tick == 1
\* time.sleep(0.2) after the 'W' handshake.
SettleTicks == 2
\* Width of an address parameter, the default of _send_hex_value.
AddrDigits == 4
\* Width of the pattern parameter (digits=2).
PatternDigits == 2

-----------------------------------------------------------------------------
(* Python text operations. *)

Min(S) == CHOOSE x \in S : \A y \in S : x <= y
Max(S) == CHOOSE x \in S : \A y \in S : x >= y

IsSpace(c) == c \in {" ", "\t", "\r", "\n"}

\* str.strip()
Strip(s) ==
    LET keep == {i \in 1..Len(s) : ~IsSpace(s[i])}
    IN  IF keep = {} THEN <<>> ELSE SubSeq(s, Min(keep), Max(keep))

\* str.startswith(p)
StartsWith(s, p) == Len(s) >= Len(p) /\ SubSeq(s, 1, Len(p)) = p

\* str.endswith(p)
EndsWith(s, p) == Len(s) >= Len(p) /\ SubSeq(s, Len(s) - Len(p) + 1, Len(s)) = p

\* Positions where p occurs in s.
Occurrences(s, p) == {i \in 1..(Len(s) - Len(p) + 1) : SubSeq(s, i, i + Len(p) - 1) = p}

\* p in s
Contains(s, p) == Occurrences(s, p) # {}

\* str.split(sep) with a non-empty separator string.
RECURSIVE SplitOn(_, _)
SplitOn(s, sep) ==
    IF Occurrences(s, sep) = {} THEN <<s>>
    ELSE LET i == Min(Occurrences(s, sep))
         IN  <<SubSeq(s, 1, i - 1)>> \o SplitOn(SubSeq(s, i + Len(sep), Len(s)), sep)

\* str.split(): split on runs of whitespace, no empty strings.
RECURSIVE SplitWs(_)
SplitWs(s) ==
    LET t == Strip(s)
    IN  IF t = <<>> THEN <<>>
        ELSE LET sp == {i \in 1..Len(t) : IsSpace(t[i])}
             IN  IF sp = {} THEN <<t>>
                 ELSE <<SubSeq(t, 1, Min(sp) - 1)>> \o SplitWs(SubSeq(t, Min(sp), Len(t)))

HexDigits == <<"0", "1", "2", "3", "4", "5", "6", "7", "8", "9",
               "A", "B", "C", "D", "E", "F">>
LowerHex == <<"0", "1", "2", "3", "4", "5", "6", "7", "8", "9",
              "a", "b", "c", "d", "e", "f">>

IsHexChar(c) == \E i \in 1..16 : HexDigits[i] = c \/ LowerHex[i] = c
HexVal(c) == (CHOOSE i \in 1..16 : HexDigits[i] = c \/ LowerHex[i] = c) - 1

\* int(s, 16) accepts s (plain hex digit strings; anything else the device
\* lines of this model contain raises ValueError).
IsHex(s) == s # <<>> /\ \A i \in 1..Len(s) : IsHexChar(s[i])

\* int(s, 16)
RECURSIVE ParseHex(_)
ParseHex(s) ==
    IF s = <<>> THEN 0
    ELSE 16 * ParseHex(SubSeq(s, 1, Len(s) - 1)) + HexVal(s[Len(s)])

\* The uppercase hex digits of v, most significant first, no padding.
RECURSIVE HexOf(_)
HexOf(v) == IF v < 16 THEN <<HexDigits[v + 1]>>
            ELSE HexOf(v \div 16) \o <<HexDigits[(v % 16) + 1]>>

RECURSIVE Zeros(_)
Zeros(n) == IF n <= 0 THEN <<>> ELSE <<"0">> \o Zeros(n - 1)

\* Mutant of ToHex: no zero padding.
ToHexUnpadded(value, digits) == HexOf(value)

\* f"{value:0{digits}X}": digits is a minimum width.
ToHex(value, digits) == Zeros(digits - Len(HexOf(value))) \o HexOf(value)

CRLF == <<"\r", "\n">>

-----------------------------------------------------------------------------
(* The markers of the protocol, as the code spells them. *)

MCommandsColon == <<"C", "o", "m", "m", "a", "n", "d", "s", ":">>
MCommands == <<"C", "o", "m", "m", "a", "n", "d", "s">>
MPress == <<"P", "r", "e", "s", "s">>
MAddr == <<"A", "d", "d", "r">>
MPrompt == <<">">>
MColonSpace == <<":", " ">>

-----------------------------------------------------------------------------
(* The device: raw lines as they arrive (before decode().strip()). *)

LBlank == <<"\r">>
LOk == <<"o", "k", "\r">>
LMenu == MCommandsColon \o <<"\r">>
LMenuTail == <<"x", " ">> \o MCommandsColon
LCommandsBare == MCommands
LPrompt == <<">", "\r">>
LPress == MPress \o <<" ", "k">>
LPressPrompt == MPress \o <<">">>
LHeader == MAddr \o <<":", " ", "1">>
LRow0 == <<"0", ":", " ", "1", " ", "f">>
LRow1 == <<"1", "A", ":", " ", "2", "\r">>
LRowBad == <<"1", ":", " ", "2", ":", " ", "3">>

\* The lines the device may send during an operation: one line of each class
\* the operation's loops tell apart.
DeviceLines(o) ==
    CASE o = "erase" -> {LBlank, LMenu, LMenuTail, LCommandsBare}
      [] o = "read"  -> {LBlank, LPrompt, LPress, LPressPrompt, LHeader,
                         LRow0, LRow1, LRowBad}
      [] o = "write" -> {LBlank, LMenu, LMenuTail, LCommandsBare}

Ops == {"erase", "read", "write"}

\* Every raw line the device of this model sends.
RawLines == UNION {DeviceLines(o) : o \in Ops} \cup {LOk}

\* readline().decode().strip() of each raw line, computed once.
Decoded == [l \in RawLines |-> Strip(l)]

\* The line the host gets from the buffer entry e.
Readline(e) == Decoded[e.text]

\* The deadline of the loop the host is polling in has passed.
DeadlinePassed ==
    \/ pc = "handshake" /\ now > cmd_timeout
    \/ pc = "erase_loop" /\ now > erase_timeout

\* A line in the input buffer, with when it arrived: before the command was
\* written (pre), after the deadline of the loop then polling (late).
Entry(l) == [text |-> l, pre |-> (pc = "idle"), late |-> DeadlinePassed]

NoEntry == [text |-> <<>>, pre |-> FALSE, late |-> FALSE]

Ended == {"done", "failed"}

\* The device sends one of its scripted lines.
DeviceSend ==
    /\ pc \notin Ended
    /\ budget > 0
    /\ \E l \in DeviceLines(op) :
          /\ inbuf' = Append(inbuf, Entry(l))
          /\ cmdsSent' = (cmdsSent \/ EndsWith(Decoded[l], MCommandsColon))
    /\ budget' = budget - 1
    /\ UNCHANGED <<op, start_addr, end_addr, pattern, hex_data, pc, err, now,
                   cmd_timeout, erase_timeout, calls, response, dump_data,
                   current_addr, current_bytes, lineIx, hsRead, respFrom, flushed,
                   rowsSeen, pressSeen>>
    /\ UNCHANGED <<keptSeg, stopAt, codecVars, cliVars>>

\* The device keeps sending a status line for as long as it likes: the next
\* one whenever the host has read all it sent.
DeviceChatter ==
    /\ pc \notin Ended
    /\ inbuf = <<>>
    /\ inbuf' = Append(inbuf, Entry(LOk))
    /\ UNCHANGED <<op, start_addr, end_addr, pattern, hex_data, pc, err, now,
                   cmd_timeout, erase_timeout, calls, response, dump_data,
                   current_addr, current_bytes, lineIx, budget, hsRead, respFrom,
                   flushed, cmdsSent, rowsSeen, pressSeen>>
    /\ UNCHANGED <<keptSeg, stopAt, codecVars, cliVars>>

-----------------------------------------------------------------------------
(* The transport calls. *)

ResetInput == <<"reset_input_buffer">>
ResetOutput == <<"reset_output_buffer">>
Write(data) == <<"write", data>>

\* Mutant of clear_buffer: the input buffer is not reset.
clear_buffer_keep(buf) == buf

\* _clear_buffer: what is left of the input buffer.
clear_buffer(buf) == <<>>

\* The bytes written so far, in order.
RECURSIVE Wire(_)
Wire(c) ==
    IF c = <<>> THEN <<>>
    ELSE Wire(SubSeq(c, 1, Len(c) - 1))
         \o (IF c[Len(c)][1] = "write" THEN c[Len(c)][2] ELSE <<>>)

\* The data of the write calls, one element per call.
Writes(c) == SelectSeq(c, LAMBDA x : x[1] = "write")

CmdChar(o) == CASE o = "erase" -> "E" [] o = "read" -> "D" [] o = "write" -> "W"

AfterHandshake(o) ==
    CASE o = "erase" -> "erase_params"
      [] o = "read"  -> "read_param"
      [] o = "write" -> "write_settle"

-----------------------------------------------------------------------------
(* _send_command *)

\* _send_command up to the poll loop: flush, write the command, sleep.
SendCommand ==
    /\ pc = "idle"
    /\ inbuf' = clear_buffer(inbuf)
    /\ flushed' = Len(inbuf) - Len(inbuf')
    /\ calls' = calls \o <<ResetInput, ResetOutput, Write(<<CmdChar(op)>>)>>
    /\ now' = now + Tick
    /\ cmd_timeout' = now' + CmdTimeout
    /\ pc' = "handshake"
    /\ UNCHANGED <<op, start_addr, end_addr, pattern, hex_data, err,
                   erase_timeout, response, dump_data, current_addr,
                   current_bytes, lineIx, budget, hsRead, respFrom, cmdsSent,
                   rowsSeen, pressSeen>>
    /\ UNCHANGED <<keptSeg, stopAt, codecVars, cliVars>>

\* Mutant of send_command_outcome: any line read ends the wait.
send_command_outcome_any(avail, line, t, deadline) ==
    IF avail THEN "return"
    ELSE IF t > deadline THEN "raise" ELSE "sleep"

\* Mutant of send_command_outcome: once the deadline has passed an empty line
\* is returned as the response instead of the timeout being raised.
send_command_outcome_blank(avail, line, t, deadline) ==
    IF avail /\ (line # <<>> \/ t > deadline) THEN "return"
    ELSE IF t > deadline THEN "raise" ELSE "sleep"

\* One iteration of the poll loop of _send_command.
send_command_outcome(avail, line, t, deadline) ==
    IF avail /\ line # <<>> THEN "return"
    ELSE IF t > deadline THEN "raise" ELSE "sleep"

SendCommandPoll ==
    /\ pc = "handshake"
    /\ LET avail == inbuf # <<>>
           line == IF avail THEN Readline(Head(inbuf)) ELSE <<>>
           out == send_command_outcome(avail, line, now, cmd_timeout)
       IN  /\ inbuf' = IF avail THEN Tail(inbuf) ELSE inbuf
           /\ hsRead' = IF avail THEN Append(hsRead, line) ELSE hsRead
           /\ CASE out = "return" ->
                     /\ response' = line
                     /\ respFrom' = Head(inbuf)
                     /\ pc' = AfterHandshake(op)
                     /\ UNCHANGED <<err, now>>
                [] out = "raise" ->
                     /\ pc' = "failed"
                     /\ err' = "TimeoutResponse"
                     /\ UNCHANGED <<response, respFrom, now>>
                [] out = "sleep" ->
                     /\ now' = now + Tick
                     /\ UNCHANGED <<response, respFrom, pc, err>>
    /\ UNCHANGED <<op, start_addr, end_addr, pattern, hex_data, cmd_timeout,
                   erase_timeout, calls, dump_data, current_addr, current_bytes,
                   lineIx, budget, flushed, cmdsSent, rowsSeen, pressSeen>>
    /\ UNCHANGED <<keptSeg, stopAt, codecVars, cliVars>>

\* _send_hex_value: the calls it adds (its sleep is taken by the caller's action).
send_hex_value(c, value, digits) ==
    c \o <<Write(ToHex(value, digits)), Write(CRLF)>>

-----------------------------------------------------------------------------
(* erase *)

\* The three parameters of erase and the start of its deadline.
EraseParams ==
    /\ pc = "erase_params"
    /\ calls' = send_hex_value(
                    send_hex_value(
                        send_hex_value(calls, start_addr, AddrDigits),
                        end_addr, AddrDigits),
                    pattern, PatternDigits)
    /\ now' = now + 3 * Tick
    /\ erase_timeout' = now' + EraseTimeout
    /\ pc' = "erase_loop"
    /\ UNCHANGED <<op, start_addr, end_addr, pattern, hex_data, err, cmd_timeout,
                   inbuf, response, dump_data, current_addr, current_bytes,
                   lineIx, budget, hsRead, respFrom, flushed, cmdsSent, rowsSeen,
                   pressSeen>>
    /\ UNCHANGED <<keptSeg, stopAt, codecVars, cliVars>>

\* Mutant of erase_outcome: the loop gives up when the deadline is reached,
\* not when it has passed.
erase_outcome_early(avail, line, t, deadline) ==
    IF avail /\ EndsWith(line, MCommandsColon) THEN "break"
    ELSE IF t >= deadline THEN "raise" ELSE "sleep"

\* One iteration of the completion loop of erase.
erase_outcome(avail, line, t, deadline) ==
    IF avail /\ EndsWith(line, MCommandsColon) THEN "break"
    ELSE IF t > deadline THEN "raise" ELSE "sleep"

ErasePoll ==
    /\ pc = "erase_loop"
    /\ LET avail == inbuf # <<>>
           line == IF avail THEN Readline(Head(inbuf)) ELSE <<>>
           out == erase_outcome(avail, line, now, erase_timeout)
       IN  /\ inbuf' = IF avail THEN Tail(inbuf) ELSE inbuf
           /\ CASE out = "break" ->
                     /\ pc' = "done"
                     /\ UNCHANGED <<err, now>>
                [] out = "raise" ->
                     /\ pc' = "failed"
                     /\ err' = "TimeoutErase"
                     /\ UNCHANGED now
                [] out = "sleep" ->
                     /\ now' = now + Tick
                     /\ UNCHANGED <<pc, err>>
    /\ UNCHANGED <<op, start_addr, end_addr, pattern, hex_data, cmd_timeout,
                   erase_timeout, calls, response, dump_data, current_addr,
                   current_bytes, lineIx, budget, hsRead, respFrom, flushed,
                   cmdsSent, rowsSeen, pressSeen>>
    /\ UNCHANGED <<keptSeg, stopAt, codecVars, cliVars>>

-----------------------------------------------------------------------------
(* read *)

\* The start address of read and the locals of its dump loop.
ReadParam ==
    /\ pc = "read_param"
    /\ calls' = send_hex_value(calls, start_addr, AddrDigits)
    /\ now' = now + Tick
    /\ dump_data' = <<>>
    /\ current_addr' = <<>>
    /\ current_bytes' = <<>>
    /\ pc' = "read_loop"
    /\ UNCHANGED <<op, start_addr, end_addr, pattern, hex_data, err, cmd_timeout,
                   erase_timeout, inbuf, response, lineIx, budget, hsRead, respFrom,
                   flushed, cmdsSent, rowsSeen, pressSeen>>
    /\ UNCHANGED <<keptSeg, stopAt, codecVars, cliVars>>

\* Mutant of read_class: the pagination prompt is tested before the terminal prompt.
read_class_press_first(line) ==
    IF line # <<>> /\ StartsWith(line, MPress) THEN "press"
    ELSE IF EndsWith(line, MPrompt) THEN "end"
    ELSE IF line = <<>> \/ StartsWith(line, MAddr) THEN "skip"
    ELSE IF Contains(line, MColonSpace) THEN "row"
    ELSE "other"

\* Mutant of read_class: the data row test comes before the header test.
read_class_row_first(line) ==
    IF EndsWith(line, MPrompt) THEN "end"
    ELSE IF line = <<>> THEN "skip"
    ELSE IF Contains(line, MColonSpace) THEN "row"
    ELSE IF StartsWith(line, MAddr) THEN "skip"
    ELSE IF StartsWith(line, MPress) THEN "press"
    ELSE "other"

\* The branch the dump loop takes for a line, in the order of its tests.
read_class(line) ==
    IF EndsWith(line, MPrompt) THEN "end"
    ELSE IF line = <<>> \/ StartsWith(line, MAddr) THEN "skip"
    ELSE IF StartsWith(line, MPress) THEN "press"
    ELSE IF Contains(line, MColonSpace) THEN "row"
    ELSE "other"

\* Mutant of flush_segment: the address is tested for truth, so address 0 is dropped.
flush_segment_truthy(data, addr, bytes) ==
    IF addr # <<>> /\ addr # <<0>> /\ bytes # <<>>
    THEN Append(data, <<addr[1], bytes>>)
    ELSE data

\* if current_addr is not None and current_bytes: dump_data.append(...)
flush_segment(data, addr, bytes) ==
    IF addr # <<>> /\ bytes # <<>> THEN Append(data, <<addr[1], bytes>>) ELSE data

\* addr_str, data_str = line.split(': ') and the int(., 16) calls succeed.
RowParses(line) ==
    LET parts == SplitOn(line, MColonSpace)
    IN  /\ Len(parts) = 2
        /\ IsHex(parts[1])
        /\ \A i \in 1..Len(SplitWs(parts[2])) : IsHex(SplitWs(parts[2])[i])

\* int(addr_str, 16)
RowAddr(line) == ParseHex(SplitOn(line, MColonSpace)[1])

\* [int(byte_str, 16) for byte_str in data_str.split()]
RowBytes(line) ==
    LET toks == SplitWs(SplitOn(line, MColonSpace)[2])
    IN  [i \in 1..Len(toks) |-> ParseHex(toks[i])]

\* The parse of each line the device of this model sends, computed once.
Parsed == [l \in {Decoded[r] : r \in RawLines} |->
              IF RowParses(l)
              THEN [ok |-> TRUE, addr |-> RowAddr(l), bytes |-> RowBytes(l)]
              ELSE [ok |-> FALSE, addr |-> 0, bytes |-> <<>>]]

\* The bytes written to ask for the next page.
page_reply == <<" ">>

\* A dump data row as the protocol defines it.
IsDataRow(line) ==
    /\ line # <<>>
    /\ Contains(line, MColonSpace)
    /\ ~StartsWith(line, MAddr)
    /\ ~StartsWith(line, MPress)
    /\ ~EndsWith(line, MPrompt)

\* One iteration of the dump loop of read that finds a line waiting. With
\* nothing waiting the loop tests in_waiting again at once, without a sleep and
\* without a deadline: no variable changes, a stuttering step.
ReadPoll ==
    /\ pc = "read_loop"
    /\ inbuf # <<>>
    /\ LET line == Readline(Head(inbuf))
           cls == read_class(line)
       IN  /\ inbuf' = Tail(inbuf)
           /\ rowsSeen' = IF IsDataRow(line) THEN Append(rowsSeen, line) ELSE rowsSeen
           /\ pressSeen' = IF StartsWith(line, MPress)
                           THEN Append(pressSeen, line) ELSE pressSeen
           /\ keptSeg' = (keptSeg \/ (/\ current_addr # <<>>
                                       /\ current_bytes # <<>>
                                       /\ ~IsDataRow(line)
                                       /\ ~EndsWith(line, MPrompt)))
           /\ CASE cls = "end" ->
                     /\ dump_data' = flush_segment(dump_data, current_addr, current_bytes)
                     /\ pc' = "done"
                     /\ UNCHANGED <<err, now, calls, current_addr, current_bytes>>
                [] cls \in {"skip", "other"} ->
                     UNCHANGED <<pc, err, now, calls, dump_data, current_addr,
                                 current_bytes>>
                [] cls = "press" ->
                     /\ calls' = Append(calls, Write(page_reply))
                     /\ now' = now + Tick
                     /\ UNCHANGED <<pc, err, dump_data, current_addr, current_bytes>>
                [] cls = "row" ->
                     /\ dump_data' = flush_segment(dump_data, current_addr, current_bytes)
                     /\ IF Parsed[line].ok
                        THEN /\ current_addr' = <<Parsed[line].addr>>
                             /\ current_bytes' = Parsed[line].bytes
                             /\ UNCHANGED <<pc, err>>
                        ELSE /\ pc' = "failed"
                             /\ err' = "ValueError"
                             /\ UNCHANGED <<current_addr, current_bytes>>
                     /\ UNCHANGED <<now, calls>>
    /\ UNCHANGED <<op, start_addr, end_addr, pattern, hex_data, cmd_timeout,
                   erase_timeout, response, lineIx, budget, hsRead, respFrom,
                   flushed, cmdsSent>>
    /\ UNCHANGED <<stopAt, codecVars, cliVars>>

-----------------------------------------------------------------------------
(* write_hex *)

\* Arguments of write_hex: one record; two records ending in a newline; two
\* records with CRLF line ends and spaces; a blank line between two records;
\* the empty text.
HexTexts == {
    <<":", "1">>,
    <<":", "1", "\n", ":", "2", "\n">>,
    <<" ", ":", "1", "\r", "\n", ":", "2">>,
    <<":", "1", "\n", "\n", ":", "2">>,
    <<>> }

\* hex_data.strip().split('\n')
HexLines(text) == SplitOn(Strip(text), <<"\n">>)

\* line.strip() + '\r\n' for each line of the for loop, computed once per text.
Records == [t \in HexTexts |-> [i \in 1..Len(HexLines(t)) |-> Strip(HexLines(t)[i]) \o CRLF]]

\* time.sleep(0.2) after the handshake; the for loop starts.
WriteSettle ==
    /\ pc = "write_settle"
    /\ now' = now + SettleTicks
    /\ lineIx' = 1
    /\ pc' = "write_line"
    /\ UNCHANGED <<op, start_addr, end_addr, pattern, hex_data, err, cmd_timeout,
                   erase_timeout, inbuf, calls, response, dump_data, current_addr,
                   current_bytes, budget, hsRead, respFrom, flushed, cmdsSent, rowsSeen,
                   pressSeen>>
    /\ UNCHANGED <<keptSeg, stopAt, codecVars, cliVars>>

\* self.ser.write(line.strip().encode() + b'\r\n') and the sleep after it.
WriteLine ==
    /\ pc = "write_line"
    /\ lineIx <= Len(Records[hex_data])
    /\ calls' = Append(calls, Write(Records[hex_data][lineIx]))
    /\ now' = now + Tick
    /\ pc' = "write_drain"
    /\ UNCHANGED <<op, start_addr, end_addr, pattern, hex_data, err, cmd_timeout,
                   erase_timeout, inbuf, response, dump_data, current_addr,
                   current_bytes, lineIx, budget, hsRead, respFrom, flushed, cmdsSent,
                   rowsSeen, pressSeen>>
    /\ UNCHANGED <<keptSeg, stopAt, codecVars, cliVars>>

\* Mutant of drain_outcome: a line starting with Commands is printed like any
\* other and the drain goes on.
drain_outcome_no_marker(avail, line) ==
    IF avail THEN "print" ELSE "break"

\* One iteration of the drain loop of write_hex.
drain_outcome(avail, line) ==
    IF avail
    THEN IF StartsWith(line, MCommands) THEN "break" ELSE "print"
    ELSE "break"

WriteDrain ==
    /\ pc = "write_drain"
    /\ LET avail == inbuf # <<>>
           line == IF avail THEN Readline(Head(inbuf)) ELSE <<>>
           out == drain_outcome(avail, line)
       IN  /\ inbuf' = IF avail THEN Tail(inbuf) ELSE inbuf
           /\ IF out = "break"
              THEN /\ lineIx' = lineIx + 1
                   /\ pc' = "write_line"
              ELSE UNCHANGED <<lineIx, pc>>
           /\ stopAt' = IF avail /\ StartsWith(line, MCommands)
                        THEN Append(stopAt, lineIx) ELSE stopAt
    /\ UNCHANGED <<op, start_addr, end_addr, pattern, hex_data, err, now, cmd_timeout,
                   erase_timeout, calls, response, dump_data, current_addr,
                   current_bytes, budget, hsRead, respFrom, flushed, cmdsSent, rowsSeen,
                   pressSeen>>
    /\ UNCHANGED <<keptSeg, codecVars, cliVars>>

\* self.ser.write(b'\r\n') after the for loop.
WriteFinish ==
    /\ pc = "write_line"
    /\ lineIx > Len(Records[hex_data])
    /\ calls' = Append(calls, Write(CRLF))
    /\ pc' = "done"
    /\ UNCHANGED <<op, start_addr, end_addr, pattern, hex_data, err, now, cmd_timeout,
                   erase_timeout, inbuf, response, dump_data, current_addr,
                   current_bytes, lineIx, budget, hsRead, respFrom, flushed, cmdsSent,
                   rowsSeen, pressSeen>>
    /\ UNCHANGED <<keptSeg, stopAt, codecVars, cliVars>>

-----------------------------------------------------------------------------
(* The Intel HEX codec: calculate_checksum, bytes_to_hex_record and the hex *)
(* output of __main__.                                                     *)

\* sum(line)
RECURSIVE Sum(_)
Sum(s) ==
    IF s = <<>> THEN 0
    ELSE IF Len(s) = 1 THEN s[1]
    ELSE Sum(SubSeq(s, 1, Len(s) \div 2)) + Sum(SubSeq(s, Len(s) \div 2 + 1, Len(s)))

\* x & 0xFF on a Python int
And255(x) == x % 256

\* ~x on a Python int
Invert(x) == -x - 1

\* Mutant of calculate_checksum: the one's complement of the sum.
calculate_checksum_ones(l) ==
    LET total == And255(Sum(l))
    IN  And255(Invert(total))

\* calculate_checksum
calculate_checksum(l) ==
    LET total == And255(Sum(l))
    IN  And255(Invert(total) + 1)

\* What a call gave: its value, or the exception it raised.
Pending == [kind |-> "pending", out |-> <<>>]
Returns(v) == [kind |-> "ok", out |-> v]
Raises(e, v) == [kind |-> e, out |-> v]

\* Mutant of addr_hi: the shift is left out.
addr_hi_unshifted(a) == And255(a)

\* (address >> 8) & 0xFF
addr_hi(a) == And255(a \div 256)

\* address & 0xFF
addr_lo(a) == And255(a)

\* ''.join(f'{b:02X}' for b in line)
RECURSIVE JoinHex(_)
JoinHex(l) ==
    IF l = <<>> THEN <<>>
    ELSE IF Len(l) = 1 THEN ToHex(l[1], 2)
    ELSE JoinHex(SubSeq(l, 1, Len(l) \div 2)) \o JoinHex(SubSeq(l, Len(l) \div 2 + 1, Len(l)))

\* bytes_to_hex_record
bytes_to_hex_record(a, t, l) ==
    IF a > 65535 THEN Raises("ValueError", <<>>)
    ELSE IF \E i \in 1..Len(l) : l[i] > 255 THEN Raises("ValueError", <<>>)
    ELSE IF t > 255 THEN Raises("ValueError", <<>>)
    ELSE LET byte_count == Len(l)
             checksum_data == <<byte_count, addr_hi(a), addr_lo(a), t>> \o l
             checksum == calculate_checksum(checksum_data)
         IN  Returns(<<":">> \o ToHex(byte_count, 2) \o ToHex(addr_hi(a), 2)
                     \o ToHex(addr_lo(a), 2) \o ToHex(t, 2) \o JoinHex(l)
                     \o ToHex(checksum, 2))

\* The chunk size of the hex output.
ChunkSize == 16

\* Mutant of chunk_address: every record of a segment carries its base address.
chunk_address_base(addr, chunk_start) == addr

\* addr + chunk_start
chunk_address(addr, chunk_start) == addr + chunk_start

\* bytes_data[chunk_start:chunk_start + 16]
Chunk(bytes_data, chunk_start) ==
    SubSeq(bytes_data, chunk_start + 1, Min({chunk_start + ChunkSize, Len(bytes_data)}))

\* The records of one segment: one per chunk_start in range(0, len(bytes_data), 16).
segment_records(addr, bytes_data) ==
    [i \in 1..((Len(bytes_data) + ChunkSize - 1) \div ChunkSize) |->
        bytes_to_hex_record(chunk_address(addr, (i - 1) * ChunkSize), 0,
                            Chunk(bytes_data, (i - 1) * ChunkSize))]

\* The records of all segments, in the order of the two for loops.
RECURSIVE image_records(_)
image_records(d) ==
    IF d = <<>> THEN <<>>
    ELSE segment_records(Head(d)[1], Head(d)[2]) \o image_records(Tail(d))

\* f.write(record + '\n') for each record, up to the first one that raises.
RECURSIVE write_records(_, _)
write_records(f, recs) ==
    IF recs = <<>> THEN Returns(f)
    ELSE IF Head(recs).kind # "ok" THEN Raises(Head(recs).kind, f)
    ELSE write_records(Append(f, Head(recs).out \o <<"\n">>), Tail(recs))

\* The end-of-file record, as the code spells it.
EOFRecord == <<":", "0", "0", "0", "0", "0", "0", "0", "1", "F", "F">>

\* The hex branch of the save: the lines written to the file, and whether the
\* save raised.
hex_output(d) ==
    LET f == write_records(<<>>, image_records(d))
    IN  IF f.kind = "ok" THEN Returns(Append(f.out, EOFRecord \o <<"\n">>)) ELSE f

\* bytes(bytes_data) for each segment, up to the first one that raises.
RECURSIVE bin_output_from(_, _)
bin_output_from(f, d) ==
    IF d = <<>> THEN Returns(f)
    ELSE IF \E i \in 1..Len(Head(d)[2]) : Head(d)[2][i] > 255 THEN Raises("ValueError", f)
    ELSE bin_output_from(Append(f, Head(d)[2]), Tail(d))

\* The bin branch of the save: the byte strings written to the file.
bin_output(d) == bin_output_from(<<>>, d)

\* n bytes counting up from 0.
Counting(n) == [i \in 1..n |-> i - 1]

\* The byte values the arguments are built from: the ends of the byte range,
\* values inside it, and one beyond it.
ByteValues == {0, 1, 128, 255}

\* All lists of at most n of the byte values above.
RECURSIVE ListsUpTo(_)
ListsUpTo(n) ==
    IF n = 0 THEN {<<>>}
    ELSE ListsUpTo(n - 1) \cup
         {Append(l, b) : l \in {x \in ListsUpTo(n - 1) : Len(x) = n - 1}, b \in ByteValues}

\* Arguments `line`: short lists, the longest list a record can hold, one
\* longer, and lists with a value that is no byte.
Lines == ListsUpTo(MaxBytes) \cup
         {Counting(18), Counting(255), Counting(256), <<256>>, <<1, 256>>}

\* Arguments `address`: both ends of the 16-bit range, values with a high and
\* a low byte, and the first value beyond the range.
Addresses == {0, 255, 256, 43981, 65535, 65536}

\* Arguments `record_type`: data, end-of-file, the last value of the byte
\* range and the first beyond it.
RecordTypes == {0, 1, 255, 256}

\* Lists of (addr, bytes) pairs as read() returns them: empty, one short
\* segment, 18 bytes at 0, two segments out of order, a segment of exactly two
\* chunks, and segments that reach beyond address 0xFFFF or hold a value that
\* is no byte.
Images == {
    <<>>,
    << <<0, <<1, 15>>>> >>,
    << <<0, Counting(18)>> >>,
    << <<26, <<2>>>>, <<0, <<1, 15>>>> >>,
    << <<256, Counting(32)>>, <<16, Counting(17)>> >>,
    << <<65520, Counting(16)>> >>,
    << <<65520, Counting(17)>> >>,
    << <<0, <<1>>>>, <<65536, <<2>>>> >>,
    << <<0, <<256>>>> >> }

\* calculate_checksum(line) is called.
CalculateChecksum ==
    /\ fn = "calculate_checksum"
    /\ ret = Pending
    /\ ret' = Returns(<<calculate_checksum(line_arg)>>)
    /\ UNCHANGED <<fn, address, record_type, line_arg, data_arg>>
    /\ UNCHANGED <<op, start_addr, end_addr, pattern, hex_data, pc, err, now,
                   cmd_timeout, erase_timeout, inbuf, calls, response, dump_data,
                   current_addr, current_bytes, lineIx, budget, hsRead, respFrom,
                   flushed, cmdsSent, rowsSeen, pressSeen, keptSeg, stopAt, cliVars>>

\* bytes_to_hex_record(address, record_type, line) is called.
BytesToHexRecord ==
    /\ fn = "bytes_to_hex_record"
    /\ ret = Pending
    /\ ret' = bytes_to_hex_record(address, record_type, line_arg)
    /\ UNCHANGED <<fn, address, record_type, line_arg, data_arg>>
    /\ UNCHANGED <<op, start_addr, end_addr, pattern, hex_data, pc, err, now,
                   cmd_timeout, erase_timeout, inbuf, calls, response, dump_data,
                   current_addr, current_bytes, lineIx, budget, hsRead, respFrom,
                   flushed, cmdsSent, rowsSeen, pressSeen, keptSeg, stopAt, cliVars>>

\* The hex branch of the save runs on data.
HexOutput ==
    /\ fn = "hex_output"
    /\ ret = Pending
    /\ ret' = hex_output(data_arg)
    /\ UNCHANGED <<fn, address, record_type, line_arg, data_arg>>
    /\ UNCHANGED <<op, start_addr, end_addr, pattern, hex_data, pc, err, now,
                   cmd_timeout, erase_timeout, inbuf, calls, response, dump_data,
                   current_addr, current_bytes, lineIx, budget, hsRead, respFrom,
                   flushed, cmdsSent, rowsSeen, pressSeen, keptSeg, stopAt, cliVars>>

-----------------------------------------------------------------------------
(* The session: one operation of an ArduinoClient after its construction. *)

\* Arguments of erase: <<start_addr, end_addr, pattern>>. The defaults, values
\* inside the 16-bit / 8-bit ranges, and values outside them.
EraseArgs == {<<0, 0, 255>>, <<43981, 65535, 10>>, <<65536, 0, 255>>, <<0, 31, 256>>}

\* Arguments of read: start_addr.
ReadArgs == {0, 256}

\* No codec function is called.
NoCodec ==
    /\ fn = "none"
    /\ address = 0
    /\ record_type = 0
    /\ line_arg = <<>>
    /\ data_arg = <<>>
    /\ ret = Pending

\* The arguments of a run without any option.
NoArgs == [clean |-> FALSE, read |-> FALSE, output |-> FALSE, format |-> "hex",
           write |-> FALSE]

\* The module is imported: __main__ does not run.
NoCli ==
    /\ stage = "none"
    /\ args = NoArgs
    /\ programmer = FALSE
    /\ exit_code = -1
    /\ ran = <<>>
    /\ saved = <<>>

\* The state after ArduinoClient.__init__ (buffers cleared), with the arguments
\* of the operation about to be called and n lines in the device's script.
Start(n) ==
    /\ \/ /\ op = "erase"
          /\ \E a \in EraseArgs : start_addr = a[1] /\ end_addr = a[2] /\ pattern = a[3]
          /\ hex_data = <<>>
       \/ /\ op = "read"
          /\ start_addr \in ReadArgs
          /\ end_addr = 0
          /\ pattern = 255
          /\ hex_data = <<>>
       \/ /\ op = "write"
          /\ hex_data \in HexTexts
          /\ start_addr = 0
          /\ end_addr = 0
          /\ pattern = 255
    /\ pc = "idle"
    /\ err = ""
    /\ now = 0
    /\ cmd_timeout = 0
    /\ erase_timeout = 0
    /\ inbuf = <<>>
    /\ calls = <<>>
    /\ response = <<>>
    /\ dump_data = <<>>
    /\ current_addr = <<>>
    /\ current_bytes = <<>>
    /\ lineIx = 0
    /\ budget = n
    /\ hsRead = <<>>
    /\ respFrom = NoEntry
    /\ flushed = 0
    /\ cmdsSent = FALSE
    /\ rowsSeen = <<>>
    /\ pressSeen = <<>>
    /\ keptSeg = FALSE
    /\ stopAt = <<>>
    /\ NoCodec
    /\ NoCli

Init == Start(MaxLines)

InitFair == Start(MaxFairLines)

Host ==
    \/ SendCommand
    \/ SendCommandPoll
    \/ EraseParams
    \/ ErasePoll
    \/ ReadParam
    \/ ReadPoll
    \/ WriteSettle
    \/ WriteLine
    \/ WriteDrain
    \/ WriteFinish

Next ==
    \/ Host
    \/ DeviceSend
    \/ DeviceChatter

Spec == Init /\ [][Next]_vars

\* The host is a running program: it keeps taking its steps.
FairSpec == InitFair /\ [][Next]_vars /\ WF_vars(Host)

\* No ArduinoClient exists and no operation is under way.
NoSession ==
    /\ op = "none"
    /\ start_addr = 0
    /\ end_addr = 0
    /\ pattern = 255
    /\ hex_data = <<>>
    /\ pc = "none"
    /\ err = ""
    /\ now = 0
    /\ cmd_timeout = 0
    /\ erase_timeout = 0
    /\ inbuf = <<>>
    /\ calls = <<>>
    /\ response = <<>>
    /\ dump_data = <<>>
    /\ current_addr = <<>>
    /\ current_bytes = <<>>
    /\ lineIx = 0
    /\ budget = 0
    /\ hsRead = <<>>
    /\ respFrom = NoEntry
    /\ flushed = 0
    /\ cmdsSent = FALSE
    /\ rowsSeen = <<>>
    /\ pressSeen = <<>>
    /\ keptSeg = FALSE
    /\ stopAt = <<>>

\* One call of a codec function, with its arguments.
InitCodec ==
    /\ NoSession
    /\ NoCli
    /\ ret = Pending
    /\ \/ /\ fn = "calculate_checksum"
          /\ line_arg \in Lines
          /\ address = 0
          /\ record_type = 0
          /\ data_arg = <<>>
       \/ /\ fn = "bytes_to_hex_record"
          /\ address \in Addresses
          /\ record_type \in RecordTypes
          /\ line_arg \in Lines
          /\ data_arg = <<>>
       \/ /\ fn = "hex_output"
          /\ data_arg \in Images
          /\ address = 0
          /\ record_type = 0
          /\ line_arg = <<>>

NextCodec ==
    \/ CalculateChecksum
    \/ BytesToHexRecord
    \/ HexOutput

CodecSpec == InitCodec /\ [][NextCodec]_vars

-----------------------------------------------------------------------------
(* __main__: one run of the command line after the port was chosen. *)

\* The parsed arguments: --clean, --read, --output (given or not), --format,
\* --write (given or not). --output and --format matter only with --read.
CliArgs ==
    {a \in [clean : BOOLEAN, read : BOOLEAN, output : BOOLEAN,
            format : {"hex", "bin"}, write : BOOLEAN] :
        /\ a.output => a.read
        /\ a.format = "bin" => a.output}

\* Further transport calls of a run.
Open == <<"open">>
Close == <<"close">>

\* Mutant of on_result: an error is reported and the run goes on.
on_result_continue(ok, next) == next

\* except ...: sys.exit(1) inside the try block: where the run goes after a
\* step that succeeded or raised.
on_result(ok, next) == IF ok THEN next ELSE "finally"

\* The exit status after a step: 1 once a handler called sys.exit(1).
status_after(ok) == IF ok THEN exit_code ELSE 1

\* An operation was called / has ended.
Called(name) == Append(ran, [name |-> name, result |-> "running"])
Ended_as(ok) ==
    [ran EXCEPT ![Len(ran)].result = IF ok THEN "ok" ELSE "failed"]

\* programmer.erase() / read() / write_hex(text) is called: a fresh operation
\* with the default arguments on the session as the last one left it. Time is
\* counted from the call, the device's script starts anew, and the lines
\* still unread arrived before the command.
Call(o, text) ==
    /\ op' = o
    /\ start_addr' = 0
    /\ end_addr' = 0
    /\ pattern' = 255
    /\ hex_data' = text
    /\ pc' = "idle"
    /\ err' = ""
    /\ now' = 0
    /\ cmd_timeout' = 0
    /\ erase_timeout' = 0
    /\ inbuf' = [i \in 1..Len(inbuf) |-> [text |-> inbuf[i].text, pre |-> TRUE, late |-> FALSE]]
    /\ response' = <<>>
    /\ dump_data' = <<>>
    /\ current_addr' = <<>>
    /\ current_bytes' = <<>>
    /\ lineIx' = 0
    /\ budget' = MaxCliLines
    /\ hsRead' = <<>>
    /\ respFrom' = NoEntry
    /\ flushed' = 0
    /\ cmdsSent' = FALSE
    /\ rowsSeen' = <<>>
    /\ pressSeen' = <<>>
    /\ keptSeg' = FALSE
    /\ stopAt' = <<>>
    /\ UNCHANGED calls

\* The variables of the operation under way, but for the transport.
opVars == <<op, start_addr, end_addr, pattern, hex_data, pc, err, now, cmd_timeout,
            erase_timeout, response, dump_data, current_addr, current_bytes, lineIx,
            budget, hsRead, respFrom, flushed, cmdsSent, rowsSeen, pressSeen,
            keptSeg, stopAt>>

\* programmer = ArduinoClient(arduino_port, args.baud): the port opens, the
\* device resets and the buffers are cleared; or the constructor raises.
CliConnect ==
    /\ stage = "connect"
    /\ \E opened \in BOOLEAN :
          /\ programmer' = opened
          /\ calls' = IF opened THEN calls \o <<Open, ResetInput, ResetOutput>> ELSE calls
          /\ inbuf' = IF opened THEN clear_buffer(inbuf) ELSE inbuf
          /\ exit_code' = status_after(opened)
          /\ stage' = on_result(opened, "clean")
    /\ UNCHANGED <<opVars, codecVars, args, ran, saved>>

\* if args.clean: programmer.erase()
CliClean ==
    /\ stage = "clean"
    /\ IF args.clean
       THEN /\ Call("erase", <<>>)
            /\ ran' = Called("clean")
            /\ stage' = "cleaning"
       ELSE /\ stage' = "read"
            /\ UNCHANGED <<opVars, inbuf, calls, ran>>
    /\ UNCHANGED <<codecVars, args, programmer, exit_code, saved>>

\* erase() has returned or raised.
CliCleanEnd ==
    /\ stage = "cleaning"
    /\ pc \in Ended
    /\ ran' = Ended_as(pc = "done")
    /\ exit_code' = status_after(pc = "done")
    /\ stage' = on_result(pc = "done", "read")
    /\ UNCHANGED <<opVars, inbuf, calls, codecVars, args, programmer, saved>>

\* if args.read: data = programmer.read()
CliRead ==
    /\ stage = "read"
    /\ IF args.read
       THEN /\ Call("read", <<>>)
            /\ ran' = Called("read")
            /\ stage' = "reading"
       ELSE /\ stage' = "write"
            /\ UNCHANGED <<opVars, inbuf, calls, ran>>
    /\ UNCHANGED <<codecVars, args, programmer, exit_code, saved>>

\* read() has raised; or it has returned and, with --output, the data is
\* saved: the file may not open, and the encoding may raise.
CliReadEnd ==
    /\ stage = "reading"
    /\ pc \in Ended
    /\ IF pc = "done" /\ args.output
       THEN \E writable \in BOOLEAN :
               LET out == IF args.format = "bin" THEN bin_output(dump_data)
                          ELSE hex_output(dump_data)
                   ok == writable /\ out.kind = "ok"
               IN  /\ saved' = IF writable THEN out.out ELSE saved
                   /\ ran' = Append(Ended_as(TRUE),
                                    [name |-> "save",
                                     result |-> IF ok THEN "ok" ELSE "failed"])
                   /\ exit_code' = status_after(ok)
                   /\ stage' = on_result(ok, "write")
       ELSE /\ ran' = Ended_as(pc = "done")
            /\ exit_code' = status_after(pc = "done")
            /\ stage' = on_result(pc = "done", "write")
            /\ UNCHANGED saved
    /\ UNCHANGED <<opVars, inbuf, calls, codecVars, args, programmer>>

\* if args.write: the hex file is read and programmer.write_hex(result) is
\* called; or the file cannot be read.
CliWrite ==
    /\ stage = "write"
    /\ IF args.write
       THEN \E found \in BOOLEAN, text \in HexTexts :
               IF found
               THEN /\ Call("write", text)
                    /\ ran' = Called("write")
                    /\ stage' = "writing"
                    /\ UNCHANGED exit_code
               ELSE /\ ran' = Append(ran, [name |-> "write", result |-> "failed"])
                    /\ exit_code' = status_after(FALSE)
                    /\ stage' = on_result(FALSE, "finally")
                    /\ UNCHANGED <<opVars, inbuf, calls>>
       ELSE /\ stage' = "finally"
            /\ UNCHANGED <<opVars, inbuf, calls, ran, exit_code>>
    /\ UNCHANGED <<codecVars, args, programmer, saved>>

\* write_hex() has returned or raised.
CliWriteEnd ==
    /\ stage = "writing"
    /\ pc \in Ended
    /\ ran' = Ended_as(pc = "done")
    /\ exit_code' = status_after(pc = "done")
    /\ stage' = on_result(pc = "done", "finally")
    /\ UNCHANGED <<opVars, inbuf, calls, codecVars, args, programmer, saved>>

\* finally: if programmer is not None: programmer.close(); the process exits.
CliFinally ==
    /\ stage = "finally"
    /\ calls' = IF programmer THEN Append(calls, Close) ELSE calls
    /\ exit_code' = IF exit_code = -1 THEN 0 ELSE exit_code
    /\ stage' = "exited"
    /\ UNCHANGED <<opVars, inbuf, codecVars, args, programmer, ran, saved>>

\* The start of a run: the arguments are parsed, no client exists yet.
InitCli ==
    /\ NoSession
    /\ NoCodec
    /\ stage = "connect"
    /\ args \in CliArgs
    /\ programmer = FALSE
    /\ exit_code = -1
    /\ ran = <<>>
    /\ saved = <<>>

Cli ==
    \/ CliConnect
    \/ CliClean
    \/ CliCleanEnd
    \/ CliRead
    \/ CliReadEnd
    \/ CliWrite
    \/ CliWriteEnd
    \/ CliFinally

NextCli ==
    \/ Cli
    \/ Host
    \/ DeviceSend
    \/ DeviceChatter

CliSpec == InitCli /\ [][NextCli]_vars

-----------------------------------------------------------------------------
(* Properties. *)

Failed == pc = "failed"
Done == pc = "done"

\* A line ending in Commands: has reached the host before the deadline of the
\* loop then polling had passed, and after the command was written: it was
\* taken as the handshake response or is still pending.
MenuArrivedInTime ==
    \/ /\ response # <<>>
       /\ EndsWith(response, MCommandsColon)
       /\ ~respFrom.late
    \/ \E i \in 1..Len(inbuf) :
          /\ EndsWith(Readline(inbuf[i]), MCommandsColon)
          /\ ~inbuf[i].late
          /\ ~inbuf[i].pre

\* C1 (erase success): when the transport has sent a line ending in Commands:
\* before the erase deadline elapsed, erase() does not fail with the timeout
\* of its completion loop.
C1_EraseSucceedsWhenMenuInTime ==
    (op = "erase" /\ err = "TimeoutErase") => ~MenuArrivedInTime

\* C2 (erase timeout): erase() returns normally only if the transport sent a
\* line ending in Commands:; it fails only with a timeout whose deadline has
\* elapsed; and it always ends, also when the device keeps sending other lines.
C2_EraseTimesOut ==
    /\ [](op = "erase" /\ Done => cmdsSent)
    /\ [](op = "erase" /\ Failed =>
            \/ err = "TimeoutErase" /\ now > erase_timeout
            \/ err = "TimeoutResponse" /\ now > cmd_timeout)
    /\ ((op = "erase") ~> (pc \in Ended))

\* C2 witness: erase has timed out in its completion loop, no line ending in
\* Commands: was ever sent, and the device was still sending lines.
C2_Witness ==
    /\ op = "erase"
    /\ err = "TimeoutErase"
    /\ ~cmdsSent
    /\ inbuf # <<>>

\* C3 (read termination): read() always ends, by returning or by failing.
C3_ReadTerminates == (op = "read") ~> (pc \in Ended)

\* The MemoryImage the data rows give: one (address, bytes) pair per row that
\* carries a byte, in the order of the rows.
ExpectedImage(rows) ==
    LET kept == SelectSeq(rows, LAMBDA r : RowBytes(r) # <<>>)
    IN  [i \in 1..Len(kept) |-> <<RowAddr(kept[i]), RowBytes(kept[i])>>]

\* C4 (dump parsing): the image read() returns is exactly the list of
\* (address, bytes) pairs of the data rows it received, one per row, in order.
C4_DumpParsing ==
    (op = "read" /\ Done) => dump_data = ExpectedImage(rowsSeen)

\* C4 witness: read() has returned the two rows 0: 1 f and 1A: 2, in that order.
C4_Witness ==
    /\ op = "read"
    /\ Done
    /\ dump_data = << <<0, <<1, 15>>>>, <<26, <<2>>>> >>

\* The writes of read() before its dump loop: the command and the start address.
ReadHead ==
    <<Write(<<"D">>), Write(ToHex(start_addr, AddrDigits)), Write(CRLF)>>

\* n writes of a single space each.
Spaces(n) == [i \in 1..n |-> Write(<<" ">>)]

\* read() is in or past its dump loop.
InDump ==
    /\ op = "read"
    /\ pc = "read_loop" \/ Done \/ err = "ValueError"

\* C5 as stated (pagination): each line starting with Press that the dump loop
\* has read was answered by one write of a single space, and nothing else was
\* written since the start address.
C5_EveryPressAnswered ==
    InDump => Writes(calls) = ReadHead \o Spaces(Len(pressSeen))

\* C5 amended: the same, for the lines starting with Press that do not end in >
\* (a line ending in > ends the dump before the Press test and is not answered).
C5_PressAnsweredUnlessPrompt ==
    InDump =>
        Writes(calls) = ReadHead \o
            Spaces(Len(SelectSeq(pressSeen, LAMBDA l : ~EndsWith(l, MPrompt))))

\* C5 witness: read() returned after a pagination prompt that it answered.
C5_Witness ==
    /\ op = "read"
    /\ Done
    /\ Len(pressSeen) >= 1
    /\ ~EndsWith(pressSeen[1], MPrompt)
    /\ rowsSeen # <<>>

\* The handshake is over and returned.
Returned == pc \notin {"idle", "handshake"} /\ err # "TimeoutResponse"

\* What C6 says of every handshake, late arrivals aside: exactly the command
\* character is written; only a non-empty line ends the wait, and it is the
\* first one received; a failure is a timeout with the deadline passed.
HandshakeCore ==
    /\ pc # "idle" => Writes(calls)[1] = Write(<<CmdChar(op)>>)
    /\ pc = "handshake" =>
          /\ Writes(calls) = <<Write(<<CmdChar(op)>>)>>
          /\ \A i \in 1..Len(hsRead) : hsRead[i] = <<>>
    /\ Returned =>
          /\ response # <<>>
          /\ hsRead # <<>>
          /\ response = hsRead[Len(hsRead)]
          /\ \A i \in 1..(Len(hsRead) - 1) : hsRead[i] = <<>>
    /\ err = "TimeoutResponse" =>
          /\ now > cmd_timeout
          /\ response = <<>>
          /\ \A i \in 1..Len(hsRead) : hsRead[i] = <<>>

\* C6 as stated (handshake): the above, and the line returned arrived within
\* the deadline.
C6_HandshakeWithinDeadline ==
    /\ HandshakeCore
    /\ Returned => ~respFrom.late

\* C6 amended: the above, and the wait lasts at most one poll interval past the
\* deadline (a line arriving in that interval is still returned).
C6_HandshakeOnePollPast ==
    /\ HandshakeCore
    /\ pc = "handshake" => now <= cmd_timeout + Tick

\* C6 witness: the handshake skipped an empty line and returned a line that
\* arrived after the deadline.
C6_Witness ==
    /\ Returned
    /\ Len(hsRead) >= 2
    /\ respFrom.late

\* C7 (clean slate): the command character is written right after both buffers
\* were reset, no line that was pending then is left, and none is the response.
C7_CleanSlate ==
    /\ pc # "idle" =>
          /\ Len(calls) >= 3
          /\ SubSeq(calls, 1, 3) = <<ResetInput, ResetOutput, Write(<<CmdChar(op)>>)>>
          /\ \A i \in 1..Len(inbuf) : ~inbuf[i].pre
    /\ Returned => ~respFrom.pre

\* C7 witness: lines were pending when the command was sent, and the handshake
\* has returned.
C7_Witness ==
    /\ flushed > 0
    /\ Returned

\* s is v written as exactly n uppercase hex digits.
IsFixedHex(s, n, v) ==
    /\ Len(s) = n
    /\ \A i \in 1..n : \E d \in 1..16 : HexDigits[d] = s[i]
    /\ ParseHex(s) = v

\* The bytes of a completed erase(): E, then the three parameters, each in
\* fixed width and followed by CRLF.
EraseWireOk ==
    LET w == Wire(calls)
        a == AddrDigits
        b == PatternDigits
    IN  /\ Len(w) = 1 + (a + 2) + (a + 2) + (b + 2)
        /\ w[1] = "E"
        /\ IsFixedHex(SubSeq(w, 2, a + 1), a, start_addr)
        /\ SubSeq(w, a + 2, a + 3) = CRLF
        /\ IsFixedHex(SubSeq(w, a + 4, 2 * a + 3), a, end_addr)
        /\ SubSeq(w, 2 * a + 4, 2 * a + 5) = CRLF
        /\ IsFixedHex(SubSeq(w, 2 * a + 6, 2 * a + b + 5), b, pattern)
        /\ SubSeq(w, 2 * a + b + 6, 2 * a + b + 7) = CRLF

\* A parameter is written only after the handshake returned.
ParamsAfterResponse ==
    (op = "erase" /\ Len(Writes(calls)) > 1) => response # <<>>

\* C8 as stated (erase wire order): for every start_addr, end_addr and pattern.
C8_EraseWireAnyArgs ==
    /\ (op = "erase" /\ Done) => EraseWireOk
    /\ ParamsAfterResponse

\* C8 amended: for start_addr and end_addr that fit 4 hex digits and a pattern
\* that fits 2.
C8_EraseWireInRange ==
    /\ (/\ op = "erase" /\ Done
        /\ start_addr < 16^AddrDigits
        /\ end_addr < 16^AddrDigits
        /\ pattern < 16^PatternDigits) => EraseWireOk
    /\ ParamsAfterResponse

\* C8 witness: erase(0xABCD, 0xFFFF, 0x0A) has completed.
C8_Witness ==
    /\ op = "erase"
    /\ Done
    /\ start_addr = 43981
    /\ pattern = 10

\* C9 (write end-of-upload): a completed write_hex has written, after the
\* command, each line of hex_text followed by CRLF, in order, then one CRLF;
\* that CRLF is the last write and the only CRLF-only one.
C9_WriteEndOfUpload ==
    (op = "write" /\ Done) =>
        LET w == Writes(calls)
        IN  /\ w = <<Write(<<"W">>)>>
                   \o [i \in 1..Len(Records[hex_data]) |-> Write(Records[hex_data][i])]
                   \o <<Write(CRLF)>>
            /\ \A i \in 1..(Len(w) - 1) : w[i] # Write(CRLF)

\* C10 (write drain is bounded): write_hex always ends.
C10_WriteTerminates == (op = "write") ~> (pc \in Ended)

-----------------------------------------------------------------------------
(* Properties of the codec. *)

\* Every value of the list is a byte.
AllBytes(l) == \A i \in 1..Len(l) : l[i] \in 0..255

\* C11 (checksum): for a list of bytes, calculate_checksum gives a value in
\* 0..255 equal to (-sum) mod 256, and the checksum of the list with that value
\* appended is 0.
C11_Checksum ==
    (fn = "calculate_checksum" /\ ret # Pending /\ AllBytes(line_arg)) =>
        /\ ret.kind = "ok"
        /\ ret.out[1] \in 0..255
        /\ ret.out[1] = (-Sum(line_arg)) % 256
        /\ calculate_checksum(Append(line_arg, ret.out[1])) = 0

\* C11 witness: the checksum of [128, 255] (sum 383) was computed as 129.
C11_Witness ==
    /\ fn = "calculate_checksum"
    /\ line_arg = <<128, 255>>
    /\ ret = Returns(<<129>>)

\* The text of a record between positions i and j.
Field(r, i, j) == SubSeq(r, i, j)

\* The record r has the layout :LLAAAATT[DD...]CC for n data bytes.
HasLayout(r, n) ==
    /\ Len(r) = 11 + 2 * n
    /\ r[1] = ":"
    /\ \A i \in 2..Len(r) : \E d \in 1..16 : HexDigits[d] = r[i]

\* The fields of a record read according to that layout.
DecodeRecord(r) ==
    LET count == ParseHex(Field(r, 2, 3))
    IN  [count       |-> count,
         address     |-> ParseHex(Field(r, 4, 7)),
         record_type |-> ParseHex(Field(r, 8, 9)),
         data        |-> [i \in 1..count |-> ParseHex(Field(r, 8 + 2 * i, 9 + 2 * i))],
         checksum    |-> ParseHex(Field(r, Len(r) - 1, Len(r)))]

\* The checksum the fields of a decoded record ask for.
Recomputed(d) ==
    (-(d.count + (d.address \div 256) + (d.address % 256) + d.record_type
       + Sum(d.data))) % 256

\* The text r decodes, by the layout, to the given fields with a matching checksum.
DecodesTo(r, a, t, l) ==
    /\ Len(r) >= 11
    /\ HasLayout(r, ParseHex(Field(r, 2, 3)))
    /\ DecodeRecord(r).address = a
    /\ DecodeRecord(r).record_type = t
    /\ DecodeRecord(r).data = l
    /\ DecodeRecord(r).checksum = Recomputed(DecodeRecord(r))

\* C12 (encode_record rejects malformed input): bytes_to_hex_record raises
\* ValueError when address > 0xFFFF, a data byte > 0xFF or record_type > 0xFF,
\* and every record it does return has the fixed-width layout with the given
\* values in its fields.
C12_EncodeRejectsOrFixedWidth ==
    (fn = "bytes_to_hex_record" /\ ret # Pending) =>
        /\ (\/ address > 65535
            \/ record_type > 255
            \/ \E i \in 1..Len(line_arg) : line_arg[i] > 255) => ret.kind = "ValueError"
        /\ ret.kind = "ok" =>
              /\ HasLayout(ret.out, Len(line_arg))
              /\ IsFixedHex(Field(ret.out, 2, 3), 2, Len(line_arg))
              /\ IsFixedHex(Field(ret.out, 4, 7), 4, address)
              /\ IsFixedHex(Field(ret.out, 8, 9), 2, record_type)
              /\ \A i \in 1..Len(line_arg) :
                    IsFixedHex(Field(ret.out, 8 + 2 * i, 9 + 2 * i), 2, line_arg[i])

\* The arguments are those of a well-formed record.
InRange ==
    /\ address <= 65535
    /\ record_type <= 255
    /\ Len(line_arg) <= 255
    /\ AllBytes(line_arg)

\* C13 (record round trip): for address <= 0xFFFF, record_type <= 0xFF and at
\* most 255 data bytes, the text bytes_to_hex_record returns decodes to the
\* same address, record type and data, with a matching checksum.
C13_RecordRoundTrip ==
    (fn = "bytes_to_hex_record" /\ ret # Pending /\ InRange) =>
        /\ ret.kind = "ok"
        /\ DecodesTo(ret.out, address, record_type, line_arg)

\* C13 witness: a record of 255 data bytes at address 0xABCD, type 0xFF, was
\* encoded.
C13_Witness ==
    /\ fn = "bytes_to_hex_record"
    /\ ret.kind = "ok"
    /\ address = 43981
    /\ record_type = 255
    /\ Len(line_arg) = 255

\* The bytes of a segment with their addresses, in order.
SegBytes(addr, bytes_data) ==
    [i \in 1..Len(bytes_data) |-> <<addr + i - 1, bytes_data[i]>>]

\* The bytes of all segments with their addresses, in order.
RECURSIVE Flatten(_)
Flatten(d) ==
    IF d = <<>> THEN <<>>
    ELSE SegBytes(Head(d)[1], Head(d)[2]) \o Flatten(Tail(d))

\* A line of the file without its newline.
Record(l) == SubSeq(l, 1, Len(l) - 1)

\* The number of 16-byte chunks of all segments.
RECURSIVE ChunkCount(_)
ChunkCount(d) ==
    IF d = <<>> THEN 0
    ELSE ((Len(Head(d)[2]) + ChunkSize - 1) \div ChunkSize) + ChunkCount(Tail(d))

\* The file f is the Intel HEX serialization of d: data records of type 0 and
\* of 1..16 bytes, one per chunk, that decode in order to the bytes of d at
\* their addresses, then the end-of-file record, once and last.
IsHexFileOf(f, d) ==
    LET n == Len(f)
    IN  /\ n = ChunkCount(d) + 1
        /\ f[n] = EOFRecord \o <<"\n">>
        /\ \A i \in 1..(n - 1) :
              /\ f[i][Len(f[i])] = "\n"
              /\ Record(f[i]) # EOFRecord
              /\ Len(Record(f[i])) >= 11
              /\ HasLayout(Record(f[i]), ParseHex(Field(f[i], 2, 3)))
              /\ DecodeRecord(Record(f[i])).record_type = 0
              /\ DecodeRecord(Record(f[i])).count \in 1..ChunkSize
              /\ DecodeRecord(Record(f[i])).checksum = Recomputed(DecodeRecord(Record(f[i])))
        /\ Flatten([i \in 1..(n - 1) |->
                      <<DecodeRecord(Record(f[i])).address,
                        DecodeRecord(Record(f[i])).data>>]) = Flatten(d)

\* Every chunk of every segment starts at an address <= 0xFFFF and every value
\* is a byte.
Encodable(d) ==
    \A s \in 1..Len(d) :
        /\ AllBytes(d[s][2])
        /\ d[s][2] # <<>> =>
              d[s][1] + ((Len(d[s][2]) - 1) \div ChunkSize) * ChunkSize <= 65535

\* C14 as stated (hex serialization): for every list of segments the file is
\* its Intel HEX serialization.
C14_HexOutputAnyImage ==
    (fn = "hex_output" /\ ret # Pending) =>
        /\ ret.kind = "ok"
        /\ IsHexFileOf(ret.out, data_arg)

\* C14 amended: for every list of segments whose values are bytes and whose
\* chunks start at addresses <= 0xFFFF; for any other the save raises.
C14_HexOutputEncodable ==
    (fn = "hex_output" /\ ret # Pending) =>
        IF Encodable(data_arg)
        THEN ret.kind = "ok" /\ IsHexFileOf(ret.out, data_arg)
        ELSE ret.kind = "ValueError"

\* C14 witness: 18 bytes at address 0 were saved as three lines.
C14_Witness ==
    /\ fn = "hex_output"
    /\ data_arg = << <<0, Counting(18)>> >>
    /\ ret.kind = "ok"
    /\ Len(ret.out) = 3
    /\ DecodeRecord(Record(ret.out[1])).count = 16
    /\ DecodeRecord(Record(ret.out[2])).count = 2
    /\ DecodeRecord(Record(ret.out[2])).address = 16

-----------------------------------------------------------------------------
(* Properties of the dump loop, the upload and the failed handshake. *)

\* The step is an iteration of the dump loop that reads a line.
DumpRead == pc = "read_loop" /\ inbuf # <<>> /\ inbuf' = Tail(inbuf)

\* A line that matches none of the markers of the dump.
NoMarker(l) ==
    /\ l # <<>>
    /\ ~EndsWith(l, MPrompt)
    /\ ~StartsWith(l, MAddr)
    /\ ~StartsWith(l, MPress)
    /\ ~Contains(l, MColonSpace)

\* A line of one of the classes the dump loop is said to skip.
SkipLine(l) == l = <<>> \/ StartsWith(l, MAddr) \/ StartsWith(l, MPress) \/ NoMarker(l)

\* The result of read() changes only when a data row or a line ending in > is
\* read.
OnlyRowOrEndAppends ==
    dump_data' # dump_data =>
        /\ DumpRead
        /\ IsDataRow(Readline(Head(inbuf))) \/ EndsWith(Readline(Head(inbuf)), MPrompt)

\* C15 as stated (read skip lines change nothing): reading an empty line, a
\* line starting with Addr or Press, or a line with no marker leaves the result
\* and the segment in progress unchanged; only a data row or the terminal >
\* line appends to the result.
C15_SkipLinesChangeNothing ==
    [][/\ (DumpRead /\ SkipLine(Readline(Head(inbuf)))) =>
              UNCHANGED <<dump_data, current_addr, current_bytes>>
       /\ OnlyRowOrEndAppends]_vars

\* C15 amended: the same for the lines of those classes that do not end in >
\* (a line ending in > is the terminal line whatever it starts with).
C15_SkipLinesUnlessPrompt ==
    [][/\ (/\ DumpRead
           /\ SkipLine(Readline(Head(inbuf)))
           /\ ~EndsWith(Readline(Head(inbuf)), MPrompt)) =>
              UNCHANGED <<dump_data, current_addr, current_bytes>>
       /\ OnlyRowOrEndAppends]_vars

\* C15 witness: read() returned one segment after reading a pagination prompt
\* while that segment was in progress.
C15_Witness ==
    /\ op = "read"
    /\ Done
    /\ keptSeg
    /\ pressSeen # <<>>
    /\ Len(dump_data) = 1

\* The step is an iteration of the drain that reads a line starting with Commands.
DrainReadsCommands ==
    /\ pc = "write_drain"
    /\ inbuf # <<>>
    /\ inbuf' = Tail(inbuf)
    /\ StartsWith(Readline(Head(inbuf)), MCommands)

\* The writes of a completed write_hex: the command, every line, the CRLF.
AllLinesWritten ==
    Writes(calls) = <<Write(<<"W">>)>>
                    \o [i \in 1..Len(Records[hex_data]) |-> Write(Records[hex_data][i])]
                    \o <<Write(CRLF)>>

C17_FailedHandshakeAborts ==
    /\ [](err = "TimeoutResponse" =>
            /\ Failed
            /\ response = <<>>
            /\ calls = <<ResetInput, ResetOutput, Write(<<CmdChar(op)>>)>>)
    /\ [](pc \notin {"idle", "handshake", "failed"} => response # <<>>)
    /\ [](Len(Writes(calls)) > 1 => response # <<>>)
    /\ [][Failed => UNCHANGED <<pc, err, calls>>]_vars

\* C17 witness: the handshake of write_hex timed out after reading empty lines.
C17_Witness ==
    /\ op = "write"
    /\ err = "TimeoutResponse"
    /\ hsRead # <<>>

-----------------------------------------------------------------------------
(* Properties of a command-line run. *)

\* The steps the arguments ask for, in the order of the script.
Requested ==
    SelectSeq(<<"clean", "read", "save", "write">>,
              LAMBDA n : \/ n = "clean" /\ args.clean
                         \/ n = "read" /\ args.read
                         \/ n = "save" /\ args.output
                         \/ n = "write" /\ args.write)

\* The names of the steps taken so far.
RanNames == [i \in 1..Len(ran) |-> ran[i].name]

\* The operation of the client that a step calls.
OpOf(name) ==
    CASE name = "clean" -> "erase"
      [] name = "read"  -> "read"
      [] name = "write" -> "write"
      [] OTHER -> "none"

\* The command characters written to the transport, in order.
CommandsWritten ==
    SelectSeq(calls, LAMBDA x : x \in {Write(<<"E">>), Write(<<"D">>), Write(<<"W">>)})

\* The steps that got as far as writing their command.
Commanded ==
    SelectSeq(ran, LAMBDA r : /\ r.name # "save"
                              /\ r.result # "running" \/ pc # "idle"
                              /\ ~(r.name = "write" /\ r.result = "failed" /\ op # "write"))

\* The number of close calls.
Closes == Len(SelectSeq(calls, LAMBDA x : x = Close))

\* The run is over.
Exited == stage = "exited"

====
